---------------------------- MODULE Spec2Model ----------------------------
(***************************************************************************)
(* Smart Prompt Enhancer (src/app.py).                                     *)
(*                                                                         *)
(* A Python str is modelled as a sequence of one-character strings, so     *)
(* that `in`, lower(), title(), strip(), rstrip('.'), startswith() and     *)
(* join() are computed character by character as Python computes them.     *)
(* random.choice is a nondeterministic choice of an index.  The Streamlit  *)
(* script is modelled one run at a time, per browser session; the module   *)
(* attribute openai.api_key is shared by all sessions of the process.      *)
(***************************************************************************)
EXTENDS Integers, Sequences, FiniteSets, TLC

VARIABLES
    \* ---- the Streamlit script, one run at a time, per session ----
    pc,                 \* position of the session's script run
    api_key,            \* api_key = st.text_input("OpenAI API Key:")   (line 233)
    key_valid,          \* key_valid                                    (lines 236, 239)
    openai_api_key,     \* openai.api_key, one per process              (line 12)
    sent,               \* the keys this run's requests were authenticated with
    completed,          \* the run's request returned without an exception
    messages,           \* what the run has displayed, in order
    fields,             \* role, context, task read from the text areas (lines 252-268)
    transformed_prompt, \* transformed_prompt                           (line 278)
    \* ---- transform_prompt called on its own ----
    req,                \* the arguments (role, context, task)
    calls,              \* calls made with these arguments
    enhanced,           \* the locals and the return value of the last call
    previous,           \* the string returned by the call before it
    baseline            \* the arguments and the sentences before a keyword was added

uiVars  == <<pc, api_key, key_valid, openai_api_key, sent, completed, messages,
             fields, transformed_prompt>>
enhVars == <<req, calls, enhanced, previous, baseline>>
vars    == <<uiVars, enhVars>>

\* Python's None: no str, since its element is not a single character
None == <<"None">>

-----------------------------------------------------------------------------
(* Python str operations                                                    *)

UpperLetters == <<"A","B","C","D","E","F","G","H","I","J","K","L","M","N","O","P","Q","R","S","T","U","V",
      "W","X","Y","Z">>
LowerLetters == <<"a","b","c","d","e","f","g","h","i","j","k","l","m","n","o","p","q","r","s","t","u","v",
      "w","x","y","z">>
Whitespace == {" ", "\n", "\t"}

\* c.lower() and c.upper() of one character
ToLower ==
    [c \in {UpperLetters[i] : i \in 1..Len(UpperLetters)} |->
        LowerLetters[CHOOSE i \in 1..Len(UpperLetters) : UpperLetters[i] = c]]
ToUpper ==
    [c \in {LowerLetters[i] : i \in 1..Len(LowerLetters)} |->
        UpperLetters[CHOOSE i \in 1..Len(LowerLetters) : LowerLetters[i] = c]]

IsUpper(c) == c \in DOMAIN ToLower
IsLower(c) == c \in DOMAIN ToUpper
LowerChar(c) == IF IsUpper(c) THEN ToLower[c] ELSE c
UpperChar(c) == IF IsLower(c) THEN ToUpper[c] ELSE c

\* str.lower()
Lower(s) == [i \in 1..Len(s) |-> LowerChar(s[i])]

\* str.title(): a cased character is upper-cased when it follows an uncased
\* one (or starts the string) and lower-cased otherwise.
Title(s) ==
    [i \in 1..Len(s) |->
        IF i > 1 /\ (IsUpper(s[i-1]) \/ IsLower(s[i-1]))
        THEN LowerChar(s[i])
        ELSE UpperChar(s[i])]

\* key in text
Contains(key, text) ==
    \/ key = <<>>
    \/ \E i \in 1..(Len(text) - Len(key) + 1) :
          text[i] = key[1] /\ SubSeq(text, i, i + Len(key) - 1) = key

\* str.startswith(prefix)
StartsWith(s, prefix) ==
    Len(prefix) <= Len(s) /\ SubSeq(s, 1, Len(prefix)) = prefix

RECURSIVE LStrip(_)
LStrip(s) == IF s # <<>> /\ Head(s) \in Whitespace THEN LStrip(Tail(s)) ELSE s

RECURSIVE RStripSet(_, _)
RStripSet(s, chars) ==
    IF s # <<>> /\ s[Len(s)] \in chars THEN RStripSet(SubSeq(s, 1, Len(s) - 1), chars) ELSE s

\* str.strip()
Strip(s) == RStripSet(LStrip(s), Whitespace)

\* str.rstrip('.')
RStripDot(s) == RStripSet(s, {"."})

\* sep.join(list)
RECURSIVE Join(_, _)
Join(sep, list) ==
    IF list = <<>> THEN <<>>
    ELSE IF Len(list) = 1 THEN list[1]
    ELSE list[1] \o sep \o Join(sep, Tail(list))

\* f"{a} {b} {c}"
Concat3(a, b, c) == a \o <<" ">> \o b \o <<" ">> \o c

-----------------------------------------------------------------------------
(* transform_prompt: the lookup tables, in source order                     *)

domains == <<
    <<<<"d","e","v","e","l","o","p">>, <<"s","o","f","t","w","a","r","e"," ","d","e","v","e","l","o","p",
          "m","e","n","t">>>>,
    <<<<"p","r","o","g","r","a","m">>, <<"p","r","o","g","r","a","m","m","i","n","g">>>>,
    <<<<"c","o","d","e">>, <<"c","o","d","i","n","g">>>>,
    <<<<"t","e","c","h">>, <<"t","e","c","h","n","o","l","o","g","y">>>>,
    <<<<"m","a","r","k","e","t">>, <<"m","a","r","k","e","t","i","n","g">>>>,
    <<<<"b","u","s","i","n","e","s","s">>, <<"b","u","s","i","n","e","s","s"," ","s","t","r","a","t","e",
          "g","y">>>>,
    <<<<"w","r","i","t","e">>, <<"c","o","n","t","e","n","t"," ","c","r","e","a","t","i","o","n">>>>,
    <<<<"c","o","n","t","e","n","t">>, <<"c","o","n","t","e","n","t"," ","s","t","r","a","t","e","g","y">>>>,
    <<<<"d","a","t","a">>, <<"d","a","t","a"," ","a","n","a","l","y","s","i","s">>>>,
    <<<<"a","n","a","l","y">>, <<"a","n","a","l","y","t","i","c","s">>>>,
    <<<<"r","e","s","e","a","r","c","h">>, <<"r","e","s","e","a","r","c","h">>>>,
    <<<<"d","e","s","i","g","n">>, <<"d","e","s","i","g","n">>>>,
    <<<<"p","r","o","d","u","c","t">>, <<"p","r","o","d","u","c","t"," ","m","a","n","a","g","e","m","e",
          "n","t">>>>,
    <<<<"t","e","a","c","h">>, <<"e","d","u","c","a","t","i","o","n">>>>,
    <<<<"l","e","a","r","n">>, <<"l","e","a","r","n","i","n","g">>>>,
    <<<<"c","o","n","s","u","l","t">>, <<"c","o","n","s","u","l","t","i","n","g">>>> >>

default_domain == <<"p","r","o","f","e","s","s","i","o","n","a","l"," ","c","o","n","s","u","l","t","i","n",
      "g">>

experience_levels == <<<<"e","x","p","e","r","t">>, <<"s","e","n","i","o","r">>, <<"e","x","p","e","r","i",
      "e","n","c","e","d">>, <<"s","p","e","c","i","a","l","i","s","t">>, <<"p","r","o","f","e","s","s","i",
      "o","n","a","l">>>>

default_experience_level == <<"e","x","p","e","r","i","e","n","c","e","d">>

learning_terms == <<<<"l","e","a","r","n">>, <<"b","e","g","i","n","n","e","r">>, <<"n","e","w","b","i",
      "e">>, <<"s","t","a","r","t","i","n","g">>, <<"n","e","w"," ","t","o">>>>

project_types == <<
    <<<<"a","p","p">>, <<"a","p","p","l","i","c","a","t","i","o","n"," ","d","e","v","e","l","o","p","m",
          "e","n","t">>>>,
    <<<<"w","e","b","s","i","t","e">>, <<"w","e","b"," ","d","e","v","e","l","o","p","m","e","n","t">>>>,
    <<<<"p","l","a","t","f","o","r","m">>, <<"p","l","a","t","f","o","r","m"," ","d","e","v","e","l","o",
          "p","m","e","n","t">>>>,
    <<<<"t","o","o","l">>, <<"t","o","o","l"," ","c","r","e","a","t","i","o","n">>>>,
    <<<<"d","a","s","h","b","o","a","r","d">>, <<"d","a","s","h","b","o","a","r","d"," ","d","e","v","e",
          "l","o","p","m","e","n","t">>>>,
    <<<<"s","c","r","i","p","t">>, <<"s","c","r","i","p","t"," ","d","e","v","e","l","o","p","m","e","n",
          "t">>>>,
    <<<<"s","y","s","t","e","m">>, <<"s","y","s","t","e","m"," ","d","e","s","i","g","n">>>>,
    <<<<"f","r","a","m","e","w","o","r","k">>, <<"f","r","a","m","e","w","o","r","k"," ","d","e","v","e",
          "l","o","p","m","e","n","t">>>>,
    <<<<"a","p","i">>, <<"A","P","I"," ","d","e","v","e","l","o","p","m","e","n","t">>>>,
    <<<<"d","a","t","a","b","a","s","e">>, <<"d","a","t","a","b","a","s","e"," ","s","o","l","u","t","i",
          "o","n">>>>,
    <<<<"a","u","t","o","m","a","t","i","o","n">>, <<"a","u","t","o","m","a","t","i","o","n"," ","s","o",
          "l","u","t","i","o","n">>>>,
    <<<<"a","i">>, <<"A","I"," ","s","o","l","u","t","i","o","n">>>>,
    <<<<"m","l">>, <<"m","a","c","h","i","n","e"," ","l","e","a","r","n","i","n","g"," ","s","o","l","u",
          "t","i","o","n">>>>,
    <<<<"a","n","a","l","y","t","i","c","s">>, <<"a","n","a","l","y","t","i","c","s"," ","s","o","l","u",
          "t","i","o","n">>>> >>

default_project_type == <<"s","o","l","u","t","i","o","n">>

technologies == <<
    <<<<"p","y","t","h","o","n">>, <<"P","y","t","h","o","n">>>>,
    <<<<"j","a","v","a","s","c","r","i","p","t">>, <<"J","a","v","a","S","c","r","i","p","t">>>>,
    <<<<"j","s">>, <<"J","a","v","a","S","c","r","i","p","t">>>>,
    <<<<"r","e","a","c","t">>, <<"R","e","a","c","t">>>>,
    <<<<"n","o","d","e">>, <<"N","o","d","e",".","j","s">>>>,
    <<<<"f","l","a","s","k">>, <<"F","l","a","s","k">>>>,
    <<<<"d","j","a","n","g","o">>, <<"D","j","a","n","g","o">>>>,
    <<<<"s","t","r","e","a","m","l","i","t">>, <<"S","t","r","e","a","m","l","i","t">>>>,
    <<<<"t","e","n","s","o","r","f","l","o","w">>, <<"T","e","n","s","o","r","F","l","o","w">>>>,
    <<<<"p","y","t","o","r","c","h">>, <<"P","y","T","o","r","c","h">>>>,
    <<<<"p","a","n","d","a","s">>, <<"p","a","n","d","a","s">>>>,
    <<<<"n","u","m","p","y">>, <<"N","u","m","P","y">>>>,
    <<<<"s","q","l">>, <<"S","Q","L">>>>,
    <<<<"d","o","c","k","e","r">>, <<"D","o","c","k","e","r">>>>,
    <<<<"k","u","b","e","r","n","e","t","e","s">>, <<"K","u","b","e","r","n","e","t","e","s">>>>,
    <<<<"a","w","s">>, <<"A","W","S">>>>,
    <<<<"a","z","u","r","e">>, <<"A","z","u","r","e">>>>,
    <<<<"g","c","p">>, <<"G","o","o","g","l","e"," ","C","l","o","u","d">>>>,
    <<<<"a","p","i">>, <<"A","P","I">>>> >>

-----------------------------------------------------------------------------
(* transform_prompt: classification                                         *)

\* for key, label in table.items(): if <match>: found = label; break
RECURSIVE FirstMatch(_, _, _, _)
FirstMatch(table, i, a, b) ==
    IF i > Len(table) THEN None
    ELSE IF Contains(table[i][1], a) \/ Contains(table[i][1], b) THEN table[i][2]
    ELSE FirstMatch(table, i + 1, a, b)

\* Mutant: the loop without its break, so that the last matching entry wins.
RECURSIVE LastMatch(_, _, _, _)
LastMatch(table, i, a, b) ==
    IF i < 1 THEN None
    ELSE IF Contains(table[i][1], a) \/ Contains(table[i][1], b) THEN table[i][2]
    ELSE LastMatch(table, i - 1, a, b)

IdentifyDomain_LastMatch(role_lower, task_lower) ==
    LET identified_domain == LastMatch(domains, Len(domains), role_lower, task_lower)
    IN  IF identified_domain = None THEN default_domain ELSE identified_domain

\* Mutant: the fallback is the last label of the table instead of the default.
IdentifyDomain_WrongDefault(role_lower, task_lower) ==
    LET identified_domain == FirstMatch(domains, 1, role_lower, task_lower)
    IN  IF identified_domain = None THEN domains[Len(domains)][2] ELSE identified_domain

IdentifyDomain(role_lower, task_lower) ==
    LET identified_domain == FirstMatch(domains, 1, role_lower, task_lower)
    IN  IF identified_domain = None THEN default_domain ELSE identified_domain

RECURSIVE NextLevel(_, _)
NextLevel(i, role_lower) ==
    IF i > Len(experience_levels) THEN default_experience_level
    ELSE IF Contains(experience_levels[i], role_lower) THEN experience_levels[i]
    ELSE NextLevel(i + 1, role_lower)

ExperienceLevel(role_lower) == NextLevel(1, role_lower)

\* Mutant: only the first trigger word is looked for.
IsLearning_LearnOnly(context_lower) == Contains(learning_terms[1], context_lower)

IsLearning(context_lower) ==
    \E i \in 1..Len(learning_terms) : Contains(learning_terms[i], context_lower)

ProjectType(task_lower) ==
    LET project_type == FirstMatch(project_types, 1, task_lower, task_lower)
    IN  IF project_type = None THEN default_project_type ELSE project_type

\* for key, tech in technologies.items(): if key in all_text: tech_stack.append(tech)
RECURSIVE CollectTech(_, _)
CollectTech(i, all_text) ==
    IF i > Len(technologies) THEN <<>>
    ELSE (IF Contains(technologies[i][1], all_text) THEN <<technologies[i][2]>> ELSE <<>>)
         \o CollectTech(i + 1, all_text)

TechStack(all_text) == CollectTech(1, all_text)

-----------------------------------------------------------------------------
(* transform_prompt: assembly                                               *)

\* ', '.join(tech_stack) if tech_stack else <fallback>
TechPhrase(tech_stack, fallback) ==
    IF tech_stack # <<>> THEN Join(<<","," ">>, tech_stack) ELSE fallback

Titles(project_type, identified_domain) == <<
    <<"C","r","e","a","t","i","n","g"," ","a"," ">> \o Title(project_type) \o <<" ","f","o","r",
          " ">> \o Title(identified_domain),
    <<"D","e","v","e","l","o","p","i","n","g"," ","a"," ","C","u","s","t","o","m",
          " ">> \o Title(project_type) \o <<" ","S","o","l","u","t","i","o","n">>,
    Title(identified_domain) \o <<" ">> \o Title(project_type) \o <<" ","P","r","o","j","e","c","t">>,
    <<"B","u","i","l","d","i","n","g"," ","a"," ","S","p","e","c","i","a","l","i","z","e","d",
          " ">> \o Title(project_type) \o <<" ","f","o","r"," ">> \o Title(identified_domain) >>

Personas(experience_level, identified_domain, tech_stack) == <<
    <<"A","s"," ","a","n"," ">> \o experience_level \o <<" ">> \o identified_domain
        \o <<" ","s","p","e","c","i","a","l","i","s","t"," ","w","i","t","h"," ","a"," ","f","o","c","u",
              "s"," ","o","n"," ">>
        \o TechPhrase(tech_stack, <<"c","u","t","t","i","n","g","-","e","d","g","e"," ","t","e","c","h","n",
              "o","l","o","g","i","e","s">>),
    <<"T","a","k","i","n","g"," ","t","h","e"," ","p","e","r","s","p","e","c","t","i","v","e"," ","o","f",
          " ","a"," ","s","e","a","s","o","n","e","d"," ">> \o identified_domain
        \o <<" ","p","r","o","f","e","s","s","i","o","n","a","l"," ","w","i","t","h"," ","d","e","e","p",
              " ","e","x","p","e","r","t","i","s","e"," ","i","n"," ">>
        \o TechPhrase(tech_stack, <<"m","o","d","e","r","n"," ","d","e","v","e","l","o","p","m","e","n","t",
              " ","p","r","a","c","t","i","c","e","s">>),
    <<"W","o","r","k","i","n","g"," ","a","s"," ","a"," ">> \o experience_level \o <<" ","d","e","v","e",
          "l","o","p","e","r"," ","s","p","e","c","i","a","l","i","z","i","n","g"," ","i","n"," ">>
        \o identified_domain \o <<" ","a","n","d"," ">>
        \o TechPhrase(tech_stack, <<"i","n","n","o","v","a","t","i","v","e"," ","s","o","l","u","t","i","o",
              "n","s">>) >>

task_verbs == <<<<"c","r","e","a","t","e">>, <<"d","e","v","e","l","o","p">>, <<"b","u","i","l",
      "d">>, <<"d","e","s","i","g","n">>, <<"i","m","p","l","e","m","e","n","t">>>>

TaskDescription(task) ==
    LET task_description == RStripDot(Strip(task))
    IN  IF \E i \in 1..Len(task_verbs) : StartsWith(Lower(task_description), task_verbs[i])
        THEN task_description
        ELSE <<"d","e","v","e","l","o","p"," ">> \o task_description

learning_objectives == <<
    <<"C","r","e","a","t","e"," ","a"," ","s","o","l","u","t","i","o","n"," ","t","h","a","t"," ","s","e",
          "r","v","e","s"," ","a","s"," ","b","o","t","h"," ","a"," ","f","u","n","c","t","i","o","n","a",
          "l"," ","t","o","o","l"," ","a","n","d"," ","a"," ","l","e","a","r","n","i","n","g"," ","r","e",
          "s","o","u","r","c","e">>,
    <<"P","r","o","v","i","d","e"," ","c","l","e","a","r"," ","c","o","d","e"," ","s","t","r","u","c","t",
          "u","r","e"," ","w","i","t","h"," ","c","o","m","m","e","n","t","s"," ","t","h","a","t"," ","e",
          "x","p","l","a","i","n"," ","t","h","e"," ","i","m","p","l","e","m","e","n","t","a","t","i","o",
          "n">>,
    <<"I","n","c","l","u","d","e"," ","s","t","e","p","-","b","y","-","s","t","e","p"," ","s","e","t","u",
          "p"," ","i","n","s","t","r","u","c","t","i","o","n","s"," ","f","o","r"," ","b","e","g","i","n",
          "n","e","r","s">> >>

ExpertObjectives(project_type) == <<
    <<"D","e","l","i","v","e","r"," ","a"," ","h","i","g","h","-","q","u","a","l","i","t","y",
          " ">> \o project_type \o <<" ","t","h","a","t"," ","m","e","e","t","s"," ","i","n","d","u","s",
          "t","r","y"," ","s","t","a","n","d","a","r","d","s">>,
    <<"E","n","s","u","r","e"," ","t","h","e"," ","s","o","l","u","t","i","o","n"," ","i","s"," ","r","o",
          "b","u","s","t",","," ","s","c","a","l","a","b","l","e",","," ","a","n","d"," ","m","a","i","n",
          "t","a","i","n","a","b","l","e">>,
    <<"O","p","t","i","m","i","z","e"," ","f","o","r"," ","p","e","r","f","o","r","m","a","n","c","e"," ",
          "a","n","d"," ","u","s","e","r"," ","e","x","p","e","r","i","e","n","c","e">> >>

streamlit_objectives == <<
    <<"D","e","v","e","l","o","p"," ","a","n"," ","i","n","t","u","i","t","i","v","e"," ","S","t","r","e",
          "a","m","l","i","t"," ","i","n","t","e","r","f","a","c","e"," ","w","i","t","h"," ","r","e","s",
          "p","o","n","s","i","v","e"," ","d","e","s","i","g","n">>,
    <<"I","m","p","l","e","m","e","n","t"," ","e","f","f","e","c","t","i","v","e"," ","s","t","a","t","e",
          " ","m","a","n","a","g","e","m","e","n","t"," ","f","o","r"," ","a"," ","s","e","a","m","l","e",
          "s","s"," ","u","s","e","r"," ","e","x","p","e","r","i","e","n","c","e">> >>

api_objectives == <<
    <<"C","r","e","a","t","e"," ","s","e","c","u","r","e"," ","A","P","I"," ","i","n","t","e","g","r","a",
          "t","i","o","n"," ","w","i","t","h"," ","p","r","o","p","e","r"," ","v","a","l","i","d","a","t",
          "i","o","n"," ","a","n","d"," ","e","r","r","o","r"," ","h","a","n","d","l","i","n","g">> >>

\* Mutant: the API objective is an elif of the Streamlit one.
Objectives_ElifApi(is_learning, project_type, all_text) ==
    (IF is_learning THEN learning_objectives ELSE ExpertObjectives(project_type))
    \o (IF Contains(<<"s","t","r","e","a","m","l","i","t">>, all_text) THEN streamlit_objectives
        ELSE IF Contains(<<"a","p","i">>, all_text) THEN api_objectives ELSE <<>>)

Objectives(is_learning, project_type, all_text) ==
    (IF is_learning THEN learning_objectives ELSE ExpertObjectives(project_type))
    \o (IF Contains(<<"s","t","r","e","a","m","l","i","t">>, all_text) THEN streamlit_objectives ELSE <<>>)
    \o (IF Contains(<<"a","p","i">>, all_text) THEN api_objectives ELSE <<>>)

app_requirements == <<
    <<"I","n","t","u","i","t","i","v","e"," ","u","s","e","r"," ","i","n","t","e","r","f","a","c","e"," ",
          "w","i","t","h"," ","c","l","e","a","r"," ","n","a","v","i","g","a","t","i","o","n"," ","a","n",
          "d"," ","f","e","e","d","b","a","c","k">>,
    <<"R","e","s","p","o","n","s","i","v","e"," ","d","e","s","i","g","n"," ","t","h","a","t"," ","w","o",
          "r","k","s"," ","a","c","r","o","s","s"," ","d","i","f","f","e","r","e","n","t"," ","d","e","v",
          "i","c","e","s">>,
    <<"P","r","o","p","e","r"," ","e","r","r","o","r"," ","h","a","n","d","l","i","n","g"," ","a","n","d",
          " ","u","s","e","r"," ","g","u","i","d","a","n","c","e">> >>

python_requirements == <<
    <<"C","l","e","a","n",","," ","w","e","l","l","-","o","r","g","a","n","i","z","e","d"," ","P","y","t",
          "h","o","n"," ","c","o","d","e"," ","f","o","l","l","o","w","i","n","g"," ","P","E","P"," ","8",
          " ","s","t","a","n","d","a","r","d","s">>,
    <<"M","o","d","u","l","a","r"," ","a","r","c","h","i","t","e","c","t","u","r","e"," ","w","i","t","h",
          " ","s","e","p","a","r","a","t","i","o","n"," ","o","f"," ","c","o","n","c","e","r","n","s">>,
    <<"C","o","m","p","r","e","h","e","n","s","i","v","e"," ","d","o","c","u","m","e","n","t","a","t","i",
          "o","n"," ","a","n","d"," ","i","n","l","i","n","e"," ","c","o","m","m","e","n","t","s">> >>

streamlit_requirements == <<
    <<"E","f","f","i","c","i","e","n","t"," ","S","t","r","e","a","m","l","i","t"," ","c","o","m","p","o",
          "n","e","n","t","s"," ","a","n","d"," ","l","a","y","o","u","t","s">>,
    <<"S","t","a","t","e"," ","m","a","n","a","g","e","m","e","n","t"," ","f","o","r"," ","u","s","e","r",
          " ","s","e","s","s","i","o","n"," ","d","a","t","a">>,
    <<"P","r","o","p","e","r","l","y"," ","s","t","r","u","c","t","u","r","e","d"," ","a","p","p"," ","w",
          "i","t","h"," ","c","l","e","a","r"," ","s","e","c","t","i","o","n","s"," ","a","n","d"," ","n",
          "a","v","i","g","a","t","i","o","n">> >>

Requirements(all_text) ==
    (IF Contains(<<"a","p","p">>, all_text) \/ Contains(<<"a","p","p","l","i","c","a","t","i","o",
          "n">>, all_text)
        THEN app_requirements ELSE <<>>)
    \o (IF Contains(<<"p","y","t","h","o","n">>, all_text) THEN python_requirements ELSE <<>>)
    \o (IF Contains(<<"s","t","r","e","a","m","l","i","t">>, all_text) THEN streamlit_requirements ELSE <<>>)

\* The text of the template after the requirements line, up to its end.
prompt_tail == <<"\n","-"," ","P","r","o","p","e","r"," ","s","e","c","u","r","i","t","y"," ","m","e","a",
      "s","u","r","e","s"," ","i","n","c","l","u","d","i","n","g"," ","i","n","p","u","t"," ","v","a","l",
      "i","d","a","t","i","o","n"," ","a","n","d"," ","d","a","t","a"," ","p","r","o","t","e","c","t","i",
      "o","n","\n","-"," ","C","l","e","a","n",","," ","m","a","i","n","t","a","i","n","a","b","l","e"," ",
      "c","o","d","e"," ","w","i","t","h"," ","a","p","p","r","o","p","r","i","a","t","e"," ","d","o","c",
      "u","m","e","n","t","a","t","i","o","n","\n","-"," ","S","c","a","l","a","b","l","e"," ","a","r","c",
      "h","i","t","e","c","t","u","r","e"," ","t","h","a","t"," ","c","a","n"," ","a","c","c","o","m","m",
      "o","d","a","t","e"," ","f","u","t","u","r","e"," ","e","n","h","a","n","c","e","m","e","n","t","s",
      "\n","\n","#","#"," ","D","e","l","i","v","e","r","a","b","l","e","s","\n","P","l","e","a","s","e",
      " ","p","r","o","v","i","d","e",":","\n","1","."," ","A"," ","c","o","m","p","l","e","t","e",","," ",
      "w","o","r","k","i","n","g"," ","s","o","l","u","t","i","o","n"," ","w","i","t","h"," ","a","l","l",
      " ","n","e","c","e","s","s","a","r","y"," ","c","o","d","e"," ","a","n","d"," ","c","o","m","p","o",
      "n","e","n","t","s","\n","2","."," ","C","l","e","a","r"," ","e","x","p","l","a","n","a","t","i","o",
      "n"," ","o","f"," ","t","h","e"," ","s","o","l","u","t","i","o","n"," ","a","r","c","h","i","t","e",
      "c","t","u","r","e"," ","a","n","d"," ","k","e","y"," ","d","e","s","i","g","n"," ","d","e","c","i",
      "s","i","o","n","s","\n","3","."," ","S","t","e","p","-","b","y","-","s","t","e","p"," ","i","n","s",
      "t","r","u","c","t","i","o","n","s"," ","f","o","r"," ","s","e","t","t","i","n","g"," ","u","p"," ",
      "a","n","d"," ","r","u","n","n","i","n","g"," ","t","h","e"," ","a","p","p","l","i","c","a","t","i",
      "o","n","\n","4","."," ","R","e","c","o","m","m","e","n","d","a","t","i","o","n","s"," ","f","o","r",
      " ","f","u","t","u","r","e"," ","i","m","p","r","o","v","e","m","e","n","t","s"," ","a","n","d"," ",
      "e","x","p","a","n","s","i","o","n","s","\n","\n","#","#"," ","A","d","d","i","t","i","o","n","a","l",
      " ","C","o","n","s","i","d","e","r","a","t","i","o","n","s","\n","-"," ","T","h","e"," ","s","o","l",
      "u","t","i","o","n"," ","s","h","o","u","l","d"," ","b","e"," ","a","c","c","e","s","s","i","b","l",
      "e"," ","t","o"," ","u","s","e","r","s"," ","w","i","t","h"," ","v","a","r","y","i","n","g"," ","l",
      "e","v","e","l","s"," ","o","f"," ","t","e","c","h","n","i","c","a","l"," ","e","x","p","e","r","t",
      "i","s","e","\n","-"," ","I","n","c","l","u","d","e"," ","b","e","s","t"," ","p","r","a","c","t","i",
      "c","e","s"," ","f","o","r"," ","c","o","d","e"," ","o","r","g","a","n","i","z","a","t","i","o","n",
      " ","a","n","d"," ","p","r","o","j","e","c","t"," ","s","t","r","u","c","t","u","r","e","\n","-"," ",
      "C","o","n","s","i","d","e","r"," ","p","e","r","f","o","r","m","a","n","c","e"," ","o","p","t","i",
      "m","i","z","a","t","i","o","n"," ","f","o","r"," ","a"," ","s","m","o","o","t","h"," ","u","s","e",
      "r"," ","e","x","p","e","r","i","e","n","c","e","\n","-"," ","A","d","d","r","e","s","s"," ","p","o",
      "t","e","n","t","i","a","l"," ","s","e","c","u","r","i","t","y"," ","c","o","n","c","e","r","n","s",
      " ","a","n","d"," ","i","m","p","l","e","m","e","n","t","a","t","i","o","n"," ","c","h","a","l","l",
      "e","n","g","e","s","\n","\n","I","f"," ","y","o","u"," ","n","e","e","d"," ","a","n","y"," ","c","l",
      "a","r","i","f","i","c","a","t","i","o","n"," ","o","r"," ","a","d","d","i","t","i","o","n","a","l",
      " ","i","n","f","o","r","m","a","t","i","o","n"," ","a","b","o","u","t"," ","m","y"," ","r","e","q",
      "u","i","r","e","m","e","n","t","s",","," ","t","e","c","h","n","i","c","a","l"," ","b","a","c","k",
      "g","r","o","u","n","d",","," ","o","r"," ","p","r","o","j","e","c","t"," ","g","o","a","l","s",",",
      " ","p","l","e","a","s","e"," ","l","e","t"," ","m","e"," ","k","n","o","w",".","\n">>

expertise_lead == <<","," ","I"," ","n","e","e","d"," ","y","o","u","r"," ","e","x","p","e","r","t","i","s",
      "e"," ","t","o"," ">>

\* Mutant: nothing is returned when no requirement was gated in.
RenderPrompt_EmptyWithoutRequirements(title, persona, task_description, context, objectives, requirements) ==
    IF requirements = <<>> THEN <<>>
    ELSE <<"#"," ">> \o title \o <<"\n","\n">>
         \o persona \o expertise_lead \o task_description
         \o <<".","\n","\n","#","#"," ","P","r","o","j","e","c","t"," ","C","o","n","t","e","x","t","\n",
               "I","'","m"," ">> \o RStripDot(Strip(context))
         \o <<"."," ","T","h","i","s"," ","p","r","o","j","e","c","t"," ","i","s"," ","i","n","t","e","n",
               "d","e","d"," ","t","o"," ">> \o Lower(task_description)
         \o <<" ","t","h","a","t"," ","w","i","l","l"," ","h","e","l","p"," ","m","e",
               " ">> \o Lower(Strip(context))
         \o <<".","\n","\n","#","#"," ","K","e","y"," ","O","b","j","e","c","t","i","v","e","s",
               "\n">> \o Join(<<"."," ">>, objectives)
         \o <<"\n","\n","#","#"," ","T","e","c","h","n","i","c","a","l"," ","R","e","q","u","i","r","e","m",
               "e","n","t","s","\n","T","h","e"," ","s","o","l","u","t","i","o","n"," ","s","h","o","u","l",
               "d"," ","i","n","c","l","u","d","e",":","\n","-"," ">>
         \o Join(<<"."," ">>, requirements)
         \o prompt_tail

\* Mutant: the randomly chosen title is used once more, as the heading of the
\* context section.
RenderPrompt_TitleInBody(title, persona, task_description, context, objectives, requirements) ==
    <<"#"," ">> \o title \o <<"\n","\n">>
    \o persona \o expertise_lead \o task_description
    \o <<".","\n","\n","#","#"," ">> \o title \o <<"\n","I","'","m"," ">> \o RStripDot(Strip(context))
    \o <<"."," ","T","h","i","s"," ","p","r","o","j","e","c","t"," ","i","s"," ","i","n","t","e","n","d",
          "e","d"," ","t","o"," ">> \o Lower(task_description)
    \o <<" ","t","h","a","t"," ","w","i","l","l"," ","h","e","l","p"," ","m","e",
          " ">> \o Lower(Strip(context))
    \o <<".","\n","\n","#","#"," ","K","e","y"," ","O","b","j","e","c","t","i","v","e","s",
          "\n">> \o Join(<<"."," ">>, objectives)
    \o <<"\n","\n","#","#"," ","T","e","c","h","n","i","c","a","l"," ","R","e","q","u","i","r","e","m","e",
          "n","t","s","\n","T","h","e"," ","s","o","l","u","t","i","o","n"," ","s","h","o","u","l","d"," ",
          "i","n","c","l","u","d","e",":","\n","-"," ">>
    \o Join(<<"."," ">>, requirements)
    \o prompt_tail

RenderPrompt(title, persona, task_description, context, objectives, requirements) ==
    <<"#"," ">> \o title \o <<"\n","\n">>
    \o persona \o expertise_lead \o task_description
    \o <<".","\n","\n","#","#"," ","P","r","o","j","e","c","t"," ","C","o","n","t","e","x","t","\n","I","'",
          "m"," ">> \o RStripDot(Strip(context))
    \o <<"."," ","T","h","i","s"," ","p","r","o","j","e","c","t"," ","i","s"," ","i","n","t","e","n","d",
          "e","d"," ","t","o"," ">> \o Lower(task_description)
    \o <<" ","t","h","a","t"," ","w","i","l","l"," ","h","e","l","p"," ","m","e",
          " ">> \o Lower(Strip(context))
    \o <<".","\n","\n","#","#"," ","K","e","y"," ","O","b","j","e","c","t","i","v","e","s",
          "\n">> \o Join(<<"."," ">>, objectives)
    \o <<"\n","\n","#","#"," ","T","e","c","h","n","i","c","a","l"," ","R","e","q","u","i","r","e","m","e",
          "n","t","s","\n","T","h","e"," ","s","o","l","u","t","i","o","n"," ","s","h","o","u","l","d"," ",
          "i","n","c","l","u","d","e",":","\n","-"," ">>
    \o Join(<<"."," ">>, requirements)
    \o prompt_tail

\* transform_prompt(role, context, task), with the two results of random.choice
\* given as the indices ti and pi.  The value is the function's locals together
\* with the string it returns.
transform_prompt(role, context, task, ti, pi) ==
    LET role_lower == Lower(role)
        context_lower == Lower(context)
        task_lower == Lower(task)
        identified_domain == IdentifyDomain(role_lower, task_lower)
        experience_level == ExperienceLevel(role_lower)
        is_learning == IsLearning(context_lower)
        project_type == ProjectType(task_lower)
        all_text == Concat3(role_lower, context_lower, task_lower)
        tech_stack == TechStack(all_text)
        title == Titles(project_type, identified_domain)[ti]
        persona == Personas(experience_level, identified_domain, tech_stack)[pi]
        task_description == TaskDescription(task)
        objectives == Objectives(is_learning, project_type, all_text)
        requirements == Requirements(all_text)
    IN  [ identified_domain |-> identified_domain,
          experience_level |-> experience_level,
          is_learning |-> is_learning,
          project_type |-> project_type,
          tech_stack |-> tech_stack,
          title |-> title,
          persona |-> persona,
          task_description |-> task_description,
          objectives |-> objectives,
          requirements |-> requirements,
          prompt |-> RenderPrompt(title, persona, task_description, context,
                                  objectives, requirements) ]

NumTitles == 4
NumPersonas == 3


-----------------------------------------------------------------------------
(* validate_api_key and the script, lines 7-23 and 233-299                  *)

MinKeyLen == 30

Rep(c, n) == [i \in 1..n |-> c]

\* What the user may type as the key: nothing, a key one character short, and
\* two keys of the minimal length.
Keys == {<<>>, Rep("a", MinKeyLen - 1), Rep("a", MinKeyLen), Rep("b", MinKeyLen)}

\* The provider accepts the keys made of "a" only.
ProviderAccepts(k) == k # <<>> /\ \A i \in 1..Len(k) : k[i] = "a"

AllSessions == {1, 2}

NoFields == [role |-> None, context |-> None, task |-> None]

\* Mutant: <= in place of <.
FormatOK_OffByOne(k) == k # <<>> /\ ~(Len(k) <= MinKeyLen)

\* not (not api_key or len(api_key) < 30)
FormatOK(k) == k # <<>> /\ ~(Len(k) < MinKeyLen)

\* not (not (role and context and task))
AllFilled(f) == f.role # <<>> /\ f.context # <<>> /\ f.task # <<>>

Show(s, msg) == [messages EXCEPT ![s] = Append(@, msg)]

\* A rerun starts: the widget value is read, key_valid = False (lines 233-237).
RunScript(s) ==
    /\ pc[s] = "ready"
    /\ \E k \in Keys :
        /\ api_key' = [api_key EXCEPT ![s] = k]
        /\ pc' = [pc EXCEPT ![s] = IF k # <<>> THEN "validate" ELSE "gate"]
    /\ key_valid' = [key_valid EXCEPT ![s] = FALSE]
    /\ sent' = [sent EXCEPT ![s] = <<>>]
    /\ completed' = [completed EXCEPT ![s] = FALSE]
    /\ messages' = [messages EXCEPT ![s] = <<>>]
    /\ fields' = [fields EXCEPT ![s] = NoFields]
    /\ transformed_prompt' = [transformed_prompt EXCEPT ![s] = None]
    /\ UNCHANGED <<openai_api_key, enhVars>>

\* validate_api_key, line 9: the format check; a key that fails it makes the
\* function return False, and the script shows the invalid-key error (line 244).
FormatCheck(s) ==
    /\ pc[s] = "validate"
    /\ IF FormatOK(api_key[s])
       THEN /\ pc' = [pc EXCEPT ![s] = "assign"]
            /\ UNCHANGED <<key_valid, messages>>
       ELSE /\ key_valid' = [key_valid EXCEPT ![s] = FALSE]
            /\ messages' = Show(s, "invalid")
            /\ pc' = [pc EXCEPT ![s] = "gate"]
    /\ UNCHANGED <<api_key, openai_api_key, sent, completed, fields,
                   transformed_prompt, enhVars>>

\* validate_api_key, line 12: openai.api_key = api_key
AssignKey(s) ==
    /\ pc[s] = "assign"
    /\ openai_api_key' = api_key[s]
    /\ pc' = [pc EXCEPT ![s] = "request"]
    /\ UNCHANGED <<api_key, key_valid, sent, completed, messages, fields,
                   transformed_prompt, enhVars>>

\* validate_api_key, lines 13-23, and lines 239-244: the request is authenticated
\* with openai.api_key as it is when the request is made.  A key the provider
\* rejects raises; an accepted key may still fail (network).  An exception is
\* caught, shown (line 22) and turned into False.
Request(s) ==
    /\ pc[s] = "request"
    /\ sent' = [sent EXCEPT ![s] = Append(@, openai_api_key)]
    /\ \E ok \in (IF ProviderAccepts(openai_api_key) THEN {TRUE, FALSE} ELSE {FALSE}) :
        /\ completed' = [completed EXCEPT ![s] = ok]
        /\ key_valid' = [key_valid EXCEPT ![s] = ok]
        /\ messages' = [messages EXCEPT ![s] =
                IF ok THEN Append(@, "valid")
                ELSE Append(Append(@, "validation_failed"), "invalid")]
    /\ pc' = [pc EXCEPT ![s] = "gate"]
    /\ UNCHANGED <<api_key, openai_api_key, fields, transformed_prompt, enhVars>>

\* Lines 247-299: the prompt builder behind the key_valid gate.  The three text
\* areas are read from FieldInputs and the button from Buttons.
Builder(s, FieldInputs, Buttons) ==
    /\ pc[s] = "gate"
    /\ pc' = [pc EXCEPT ![s] = "ready"]
    /\ IF key_valid[s]
       THEN \E r \in FieldInputs, c \in FieldInputs, t \in FieldInputs, button \in Buttons :
            LET f == [role |-> r, context |-> c, task |-> t] IN
            /\ fields' = [fields EXCEPT ![s] = f]
            /\ IF ~button
               THEN /\ messages' = Show(s, "builder")
                    /\ UNCHANGED transformed_prompt
               ELSE IF ~AllFilled(f)
               THEN /\ messages' = [messages EXCEPT ![s] = Append(Append(@, "builder"), "warning")]
                    /\ UNCHANGED transformed_prompt
               ELSE \E ti \in 1..NumTitles, pi \in 1..NumPersonas :
                    /\ transformed_prompt' = [transformed_prompt EXCEPT ![s] =
                            transform_prompt(r, c, t, ti, pi).prompt]
                    /\ messages' = [messages EXCEPT ![s] = Append(Append(@, "builder"), "prompt")]
       ELSE /\ messages' = Show(s, "info")
            /\ UNCHANGED <<fields, transformed_prompt>>
    /\ UNCHANGED <<api_key, key_valid, openai_api_key, sent, completed, enhVars>>

-----------------------------------------------------------------------------
(* transform_prompt called on its own                                       *)

NoResult ==
    [ identified_domain |-> None, experience_level |-> None, is_learning |-> FALSE,
      project_type |-> None, tech_stack |-> <<>>, title |-> None, persona |-> None,
      task_description |-> None, objectives |-> <<>>, requirements |-> <<>>,
      prompt |-> None ]

NoBaseline ==
    [ req |-> NoFields, keyword |-> None, field |-> "none", is_learning |-> FALSE,
      project_type |-> None, objectives |-> <<>>, requirements |-> <<>> ]

MaxCalls == 2

Roles == {
    <<"P","y","t","h","o","n"," ","D","e","v","e","l","o","p","e","r">>,
    <<"s","e","n","i","o","r"," ","e","x","p","e","r","t"," ","D","a","t","a"," ","m","a","r","k","e","t",
          "e","r">>,
    <<"x">> }

Contexts == {
    <<"b","e","g","i","n","n","e","r"," ","b","u","i","l","d","i","n","g"," ","m","y"," ","f","i","r","s",
          "t"," ","a","p","p">>,
    <<" ","y","."," ">> }

Tasks == {
    <<"c","r","e","a","t","e"," ","a"," ","d","a","t","a"," ","v","i","s","u","a","l","i","z","a","t","i",
          "o","n"," ","a","p","p">>,
    <<"B","u","i","l","d"," ","a"," ","j","a","v","a","s","c","r","i","p","t"," ","a","n","d"," ","n","o",
          "d","e",".","j","s"," ","A","P","I"," ","d","a","s","h","b","o","a","r","d",".">>,
    <<"a","n"," ","a","i"," ","h","e","l","p","e","r"," ","w","i","t","h"," ","s","t","r","e","a","m","l",
          "i","t">>,
    <<"z">> }

Requests == [role : Roles, context : Contexts, task : Tasks]

\* Calls explored per request: MaxCalls on a request as drawn, and one on a
\* request a keyword was added to (its sentences do not depend on the random
\* choices).
CallsAllowed == IF baseline = NoBaseline THEN MaxCalls ELSE 1

\* One call of transform_prompt(role, context, task).
Enhance ==
    /\ calls < CallsAllowed
    /\ \E ti \in 1..NumTitles, pi \in 1..NumPersonas :
        enhanced' = transform_prompt(req.role, req.context, req.task, ti, pi)
    /\ previous' = enhanced.prompt
    /\ calls' = calls + 1
    /\ UNCHANGED <<req, baseline, uiVars>>

\* The keys of the technologies table.
TechKeywords == {technologies[i][1] : i \in 1..Len(technologies)}

\* After the first call the user adds a technology keyword, as a word of its
\* own, at the end of one of the three texts; the sentences of the first call
\* are kept for comparison.
AddKeyword ==
    /\ calls = 1
    /\ baseline = NoBaseline
    /\ \E kw \in TechKeywords, fld \in {"role", "context", "task"} :
        /\ req' = [req EXCEPT ![fld] = @ \o <<" ">> \o kw]
        /\ baseline' = [ req |-> req, keyword |-> kw, field |-> fld,
                         is_learning |-> enhanced.is_learning,
                         project_type |-> enhanced.project_type,
                         objectives |-> enhanced.objectives,
                         requirements |-> enhanced.requirements ]
    /\ calls' = 0
    /\ enhanced' = NoResult
    /\ previous' = None
    /\ UNCHANGED uiVars

-----------------------------------------------------------------------------
(* Specifications                                                           *)

InitUI ==
    /\ pc = [s \in AllSessions |-> "ready"]
    /\ api_key = [s \in AllSessions |-> <<>>]
    /\ key_valid = [s \in AllSessions |-> FALSE]
    /\ openai_api_key = None
    /\ sent = [s \in AllSessions |-> <<>>]
    /\ completed = [s \in AllSessions |-> FALSE]
    /\ messages = [s \in AllSessions |-> <<>>]
    /\ fields = [s \in AllSessions |-> NoFields]
    /\ transformed_prompt = [s \in AllSessions |-> None]

InitEnhancer ==
    /\ calls = 0
    /\ enhanced = NoResult
    /\ previous = None
    /\ baseline = NoBaseline

\* What the user may type into a text area of the script.
UIFieldInputs == {<<>>, <<" ">>, <<"a"," ","t","o","o","l">>}

\* One session running the whole script.
Init == InitUI /\ InitEnhancer /\ req = NoFields

Next ==
    \/ RunScript(1)
    \/ FormatCheck(1)
    \/ AssignKey(1)
    \/ Request(1)
    \/ Builder(1, UIFieldInputs, BOOLEAN)

Spec == Init /\ [][Next]_vars

\* Two sessions of one process validating their keys; the button is not pressed.
NextConcurrent ==
    \E s \in AllSessions :
        \/ RunScript(s)
        \/ FormatCheck(s)
        \/ AssignKey(s)
        \/ Request(s)
        \/ Builder(s, {<<"a"," ","t","o","o","l">>}, {FALSE})

SpecConcurrent == Init /\ [][NextConcurrent]_vars

\* transform_prompt on its own, its arguments drawn from Requests.
InitEnhance == InitUI /\ InitEnhancer /\ req \in Requests

NextEnhance == Enhance \/ AddKeyword

SpecEnhance == InitEnhance /\ [][NextEnhance]_vars


-----------------------------------------------------------------------------
(* Properties                                                               *)

Range(f) == {f[i] : i \in DOMAIN f}
Count(f, x) == Cardinality({i \in DOMAIN f : f[i] = x})
Min(S) == CHOOSE i \in S : \A j \in S : i <= j

\* The lower-cased texts of the current request, as the function sees them.
RoleText == Lower(req.role)
ContextText == Lower(req.context)
TaskText == Lower(req.task)
AllText == RoleText \o <<" ">> \o ContextText \o <<" ">> \o TaskText

Called == calls > 0

\* pat occurs in text at index j
OccursAt(pat, text, j) == text[j] = pat[1] /\ SubSeq(text, j, j + Len(pat) - 1) = pat

\* Index of the first occurrence of pat in text at or after i (0 if none).
Find(pat, text, i) ==
    LET last == Len(text) - Len(pat) + 1
    IN  IF \E j \in i..last : OccursAt(pat, text, j)
        THEN CHOOSE j \in i..last :
                OccursAt(pat, text, j) /\ \A k \in i..(j - 1) : ~OccursAt(pat, text, k)
        ELSE 0

\* A returned prompt cut into its title line, its persona phrase and the rest.
Parts(p) ==
    LET nl == Find(<<"\n">>, p, 1)
        lead == Find(<<","," ","I"," ","n","e","e","d"," ","y","o","u","r"," ","e","x","p","e","r","t","i",
              "s","e"," ","t","o"," ">>, p, nl)
    IN  [ title_line |-> SubSeq(p, 1, nl - 1),
          persona |-> SubSeq(p, nl + 2, lead - 1),
          rest |-> SubSeq(p, lead, Len(p)) ]

\* C1 (totality): every call with three non-empty strings returns a non-empty
\* string; no call fails to return.
C1_Totality ==
    (Called /\ req.role # <<>> /\ req.context # <<>> /\ req.task # <<>>)
        => /\ enhanced.prompt # None
           /\ Len(enhanced.prompt) > 0
           /\ \A i \in 1..Len(enhanced.prompt) : enhanced.prompt[i] \in STRING

\* C1 witness: a call returned for a request that holds no recognized keyword.
C1_Witness ==
    /\ Called
    /\ req = [role |-> <<"x">>, context |-> <<" ","y","."," ">>, task |-> <<"z">>]
    /\ enhanced.requirements = <<>>
    /\ Len(enhanced.prompt) > 0

\* C2 (bounded non-determinism): the returned prompt is one of at most
\* 4 titles x 3 personas renderings of the request: its title line is one of the
\* four candidate titles, its persona phrase one of the three candidate
\* personas, and everything after the persona phrase is the same in two calls
\* with the same request.
C2_BoundedChoice ==
    Called =>
        LET now == Parts(enhanced.prompt) IN
        /\ \E ti \in 1..4 :
             now.title_line =
                <<"#"," ">> \o Titles(enhanced.project_type, enhanced.identified_domain)[ti]
        /\ \E pi \in 1..3 :
             now.persona =
                Personas(enhanced.experience_level, enhanced.identified_domain,
                         enhanced.tech_stack)[pi]
        /\ enhanced.prompt = now.title_line \o <<"\n","\n">> \o now.persona \o now.rest
        /\ calls >= 2 => now.rest = Parts(previous).rest

\* C2 witness: two calls with the same request returned prompts that differ in
\* both the title line and the persona phrase.
C2_Witness ==
    /\ calls >= 2
    /\ Parts(enhanced.prompt).title_line # Parts(previous).title_line
    /\ Parts(enhanced.prompt).persona # Parts(previous).persona
    /\ Parts(enhanced.prompt).rest = Parts(previous).rest

KeywordAdded == baseline # NoBaseline /\ Called

\* C3 as claimed (monotonic gating): after a technology keyword is added to the
\* role, context or task, every objective and requirement sentence of the
\* output before is in the output after.
C3_AllSentencesKept ==
    KeywordAdded =>
        /\ Range(baseline.objectives) \subseteq Range(enhanced.objectives)
        /\ Range(baseline.requirements) \subseteq Range(enhanced.requirements)

IsDeliverSentence(sentence, project_type) ==
    sentence = <<"D","e","l","i","v","e","r"," ","a"," ","h","i","g","h","-","q","u","a","l","i","t","y",
          " ">> \o project_type
                  \o <<" ","t","h","a","t"," ","m","e","e","t","s"," ","i","n","d","u","s","t","r","y"," ",
                        "s","t","a","n","d","a","r","d","s">>

\* C3 as amended: after a technology keyword is appended as a word of its own,
\* every requirement sentence and every fixed objective sentence of the output
\* before is in the output after, and the learning flag is unchanged; the one
\* objective that embeds the project type is kept or, when the keyword was added
\* to the task and changed the project type, replaced by the same sentence with
\* the new project type.
C3_GatedSentencesKept ==
    KeywordAdded =>
        /\ Range(baseline.requirements) \subseteq Range(enhanced.requirements)
        /\ enhanced.is_learning = baseline.is_learning
        /\ \A sentence \in Range(baseline.objectives) :
             \/ sentence \in Range(enhanced.objectives)
             \/ /\ IsDeliverSentence(sentence, baseline.project_type)
                /\ baseline.field = "task"
                /\ enhanced.project_type # baseline.project_type
                /\ \E t \in Range(enhanced.objectives) :
                     IsDeliverSentence(t, enhanced.project_type)

\* C3 witness: "streamlit" was added to a request that had the API objective;
\* the API objective is still there and the Streamlit ones were added.
C3_Witness ==
    /\ KeywordAdded
    /\ baseline.keyword = <<"s","t","r","e","a","m","l","i","t">>
    /\ Range(api_objectives) \subseteq Range(baseline.objectives)
    /\ Range(api_objectives) \subseteq Range(enhanced.objectives)
    /\ Range(baseline.objectives) # Range(enhanced.objectives)

\* The entries of the technologies table whose keyword occurs in the text.
TechMatches ==
    LET text == AllText
    IN  {i \in 1..Len(technologies) : Contains(technologies[i][1], text)}

\* C4 as claimed (ordered set): tech_stack holds the canonical name of every
\* technologies keyword that occurs in the combined lower-cased text, in table
\* order, no other name, and no name twice.
C4_TechStackOrderedSet ==
    Called =>
        LET ts == enhanced.tech_stack IN
        /\ Range(ts) = {technologies[i][2] : i \in TechMatches}
        /\ \A m, n \in 1..Len(ts) : m < n =>
             \E i, j \in TechMatches :
                i < j /\ technologies[i][2] = ts[m] /\ technologies[j][2] = ts[n]
        /\ \A m, n \in 1..Len(ts) : m # n => ts[m] # ts[n]

AllKeywords ==
    {domains[i][1] : i \in 1..Len(domains)}
    \cup {project_types[i][1] : i \in 1..Len(project_types)}
    \cup Range(experience_levels)
    \cup {technologies[i][1] : i \in 1..Len(technologies)}

NoKeyword == LET text == AllText IN \A key \in AllKeywords : ~Contains(key, text)

\* C5 (default fallback): for a request that holds none of the keywords of the
\* four tables the domain is "professional consulting", the project type
\* "solution", the experience level "experienced", the technology list empty,
\* and the persona ends in its generic phrase.
C5_DefaultFallback ==
    (Called /\ NoKeyword) =>
        /\ enhanced.identified_domain = <<"p","r","o","f","e","s","s","i","o","n","a","l"," ","c","o","n",
              "s","u","l","t","i","n","g">>
        /\ enhanced.project_type = <<"s","o","l","u","t","i","o","n">>
        /\ enhanced.experience_level = <<"e","x","p","e","r","i","e","n","c","e","d">>
        /\ enhanced.tech_stack = <<>>
        /\ \/ Contains(<<"c","u","t","t","i","n","g","-","e","d","g","e"," ","t","e","c","h","n","o","l",
              "o","g","i","e","s">>, enhanced.persona)
           \/ Contains(<<"m","o","d","e","r","n"," ","d","e","v","e","l","o","p","m","e","n","t"," ","p",
                 "r","a","c","t","i","c","e","s">>, enhanced.persona)
           \/ Contains(<<"i","n","n","o","v","a","t","i","v","e"," ","s","o","l","u","t","i","o","n",
                 "s">>, enhanced.persona)
        /\ Contains(<<" ","p","r","o","f","e","s","s","i","o","n","a","l"," ","c","o","n","s","u","l","t",
              "i","n","g"," ">>, enhanced.persona)

\* C5 witness: a call returned for the request ("x", " y. ", "z").
C5_Witness ==
    /\ Called
    /\ NoKeyword
    /\ req.role = <<"x">>
    /\ enhanced.tech_stack = <<>>

DomainMatches ==
    LET role_text == RoleText
        task_text == TaskText
    IN  {i \in 1..Len(domains) :
            Contains(domains[i][1], role_text) \/ Contains(domains[i][1], task_text)}
ProjectMatches ==
    LET task_text == TaskText
    IN  {i \in 1..Len(project_types) : Contains(project_types[i][1], task_text)}
LevelMatches ==
    LET role_text == RoleText
    IN  {i \in 1..Len(experience_levels) : Contains(experience_levels[i], role_text)}

\* C6 (first match wins): the domain is the label of the earliest entry of the
\* domain table whose keyword occurs in the lower-cased role or task, wherever
\* the keywords stand in the text; likewise the project type over the task and
\* the experience level over the role; without a match the default is used.
C6_FirstMatchWins ==
    Called =>
        LET dm == DomainMatches
            pm == ProjectMatches
            lm == LevelMatches
        IN  /\ enhanced.identified_domain =
                 IF dm = {} THEN <<"p","r","o","f","e","s","s","i","o","n","a","l"," ","c","o","n","s","u",
                       "l","t","i","n","g">> ELSE domains[Min(dm)][2]
            /\ enhanced.project_type =
                 IF pm = {} THEN <<"s","o","l","u","t","i","o","n">> ELSE project_types[Min(pm)][2]
            /\ enhanced.experience_level =
                 IF lm = {} THEN <<"e","x","p","e","r","i","e","n","c","e",
                       "d">> ELSE experience_levels[Min(lm)]

\* C6 witness: the role holds "data" before "market" and "senior" before
\* "expert", the task "script" and "api" before "dashboard": in each table the
\* entry that wins stands later in the text than another match.
C6_Witness ==
    /\ Called
    /\ req.role = <<"s","e","n","i","o","r"," ","e","x","p","e","r","t"," ","D","a","t","a"," ","m","a","r",
          "k","e","t","e","r">>
    /\ req.task = <<"B","u","i","l","d"," ","a"," ","j","a","v","a","s","c","r","i","p","t"," ","a","n","d",
          " ","n","o","d","e",".","j","s"," ","A","P","I"," ","d","a","s","h","b","o","a","r","d",".">>
    /\ Cardinality(DomainMatches) >= 2
    /\ Cardinality(ProjectMatches) >= 2
    /\ Cardinality(LevelMatches) >= 2
    /\ enhanced.identified_domain = <<"m","a","r","k","e","t","i","n","g">>
    /\ enhanced.project_type = <<"d","a","s","h","b","o","a","r","d"," ","d","e","v","e","l","o","p","m",
          "e","n","t">>
    /\ enhanced.experience_level = <<"e","x","p","e","r","t">>

LearningContext ==
    LET context_text == ContextText
    IN  \E term \in {<<"l","e","a","r","n">>, <<"b","e","g","i","n","n","e","r">>, <<"n","e","w","b","i",
          "e">>, <<"s","t","a","r","t","i","n","g">>, <<"n","e","w"," ","t","o">>} :
            Contains(term, context_text)

BeginnerTriple == <<
    <<"C","r","e","a","t","e"," ","a"," ","s","o","l","u","t","i","o","n"," ","t","h","a","t"," ","s","e",
          "r","v","e","s"," ","a","s"," ","b","o","t","h"," ","a"," ","f","u","n","c","t","i","o","n","a",
          "l"," ","t","o","o","l"," ","a","n","d"," ","a"," ","l","e","a","r","n","i","n","g"," ","r","e",
          "s","o","u","r","c","e">>,
    <<"P","r","o","v","i","d","e"," ","c","l","e","a","r"," ","c","o","d","e"," ","s","t","r","u","c","t",
          "u","r","e"," ","w","i","t","h"," ","c","o","m","m","e","n","t","s"," ","t","h","a","t"," ","e",
          "x","p","l","a","i","n"," ","t","h","e"," ","i","m","p","l","e","m","e","n","t","a","t","i","o",
          "n">>,
    <<"I","n","c","l","u","d","e"," ","s","t","e","p","-","b","y","-","s","t","e","p"," ","s","e","t","u",
          "p"," ","i","n","s","t","r","u","c","t","i","o","n","s"," ","f","o","r"," ","b","e","g","i","n",
          "n","e","r","s">> >>

ExpertTriple == <<
    <<"D","e","l","i","v","e","r"," ","a"," ","h","i","g","h","-","q","u","a","l","i","t","y",
          " ">> \o enhanced.project_type \o <<" ","t","h","a","t"," ","m","e","e","t","s"," ","i","n","d",
          "u","s","t","r","y"," ","s","t","a","n","d","a","r","d","s">>,
    <<"E","n","s","u","r","e"," ","t","h","e"," ","s","o","l","u","t","i","o","n"," ","i","s"," ","r","o",
          "b","u","s","t",","," ","s","c","a","l","a","b","l","e",","," ","a","n","d"," ","m","a","i","n",
          "t","a","i","n","a","b","l","e">>,
    <<"O","p","t","i","m","i","z","e"," ","f","o","r"," ","p","e","r","f","o","r","m","a","n","c","e"," ",
          "a","n","d"," ","u","s","e","r"," ","e","x","p","e","r","i","e","n","c","e">> >>

GatedObjectives ==
    LET text == AllText IN
    (IF Contains(<<"s","t","r","e","a","m","l","i","t">>, text)
        THEN << <<"D","e","v","e","l","o","p"," ","a","n"," ","i","n","t","u","i","t","i","v","e"," ","S",
              "t","r","e","a","m","l","i","t"," ","i","n","t","e","r","f","a","c","e"," ","w","i","t","h",
              " ","r","e","s","p","o","n","s","i","v","e"," ","d","e","s","i","g","n">>,
                <<"I","m","p","l","e","m","e","n","t"," ","e","f","f","e","c","t","i","v","e"," ","s","t",
                      "a","t","e"," ","m","a","n","a","g","e","m","e","n","t"," ","f","o","r"," ","a"," ",
                      "s","e","a","m","l","e","s","s"," ","u","s","e","r"," ","e","x","p","e","r","i","e",
                      "n","c","e">> >>
        ELSE <<>>)
    \o (IF Contains(<<"a","p","i">>, text)
        THEN << <<"C","r","e","a","t","e"," ","s","e","c","u","r","e"," ","A","P","I"," ","i","n","t","e",
              "g","r","a","t","i","o","n"," ","w","i","t","h"," ","p","r","o","p","e","r"," ","v","a","l",
              "i","d","a","t","i","o","n"," ","a","n","d"," ","e","r","r","o","r"," ","h","a","n","d","l",
              "i","n","g">> >>
        ELSE <<>>)

ExampleRequest ==
    [ role |-> <<"P","y","t","h","o","n"," ","D","e","v","e","l","o","p","e","r">>,
      context |-> <<"b","e","g","i","n","n","e","r"," ","b","u","i","l","d","i","n","g"," ","m","y"," ","f",
            "i","r","s","t"," ","a","p","p">>,
      task |-> <<"c","r","e","a","t","e"," ","a"," ","d","a","t","a"," ","v","i","s","u","a","l","i","z",
            "a","t","i","o","n"," ","a","p","p">> ]

\* C7 (learning mode): the learning flag is true exactly when the lower-cased
\* context holds one of the five trigger words; the objectives are the
\* beginner triple when it is true and the expert triple when it is false,
\* never a sentence of the other triple, followed by the Streamlit objectives
\* and then the API objective where their keywords occur; the objectives
\* section of the prompt is these sentences joined in that order.  For the
\* example request the flag is true and the technology list holds "Python".
C7_LearningBranch ==
    Called =>
        LET learning == LearningContext
            mine == IF learning THEN BeginnerTriple ELSE ExpertTriple
            other == IF learning THEN ExpertTriple ELSE BeginnerTriple
            gated == GatedObjectives
        IN  /\ enhanced.is_learning = learning
            /\ enhanced.objectives = mine \o gated
            /\ Range(other) \cap Range(enhanced.objectives) = {}
            /\ Contains(<<"#","#"," ","K","e","y"," ","O","b","j","e","c","t","i","v","e","s",
                  "\n">> \o Join(<<"."," ">>, mine \o gated)
                            \o <<"\n","\n","#","#"," ","T","e","c","h","n","i","c","a","l"," ","R","e","q",
                                  "u","i","r","e","m","e","n","t","s">>,
                        enhanced.prompt)
            /\ req = ExampleRequest =>
                 /\ enhanced.is_learning
                 /\ <<"P","y","t","h","o","n">> \in Range(enhanced.tech_stack)

\* C7 witness: the example request was enhanced in learning mode.
C7_Witness ==
    /\ Called
    /\ req = ExampleRequest
    /\ enhanced.is_learning
    /\ SubSeq(enhanced.objectives, 1, 3) = BeginnerTriple

Blank(text) == Strip(text) = <<>>

\* C8 as claimed (caller-side precondition): transform_prompt is called only
\* with a role, context and task that are non-empty after trimming; a
\* submission with an empty or whitespace-only field is not enhanced.
C8_NoBlankSubmission ==
    \A s \in AllSessions :
        transformed_prompt[s] # None =>
            ~Blank(fields[s].role) /\ ~Blank(fields[s].context) /\ ~Blank(fields[s].task)

Validated(s) == pc[s] \in {"gate", "ready"} /\ api_key[s] # <<>>

\* C9 (validation protocol): a key that is empty or shorter than 30 characters
\* gives False without a request; any other key gives exactly one request, True
\* exactly when that request completed without an exception, and one error
\* message when it did not; the script always goes on to the gate.
C9_ValidationProtocol ==
    \A s \in AllSessions :
        /\ Validated(s) =>
             IF Len(api_key[s]) < 30
             THEN /\ sent[s] = <<>>
                  /\ ~key_valid[s]
                  /\ Count(messages[s], "validation_failed") = 0
             ELSE /\ Len(sent[s]) = 1
                  /\ key_valid[s] = completed[s]
                  /\ Count(messages[s], "validation_failed") = IF completed[s] THEN 0 ELSE 1
        /\ (pc[s] # "ready" /\ api_key[s] = <<>>) => sent[s] = <<>> /\ ~key_valid[s]

\* C9 witness: both outcomes of a request and a key refused by the format check
\* (one session, or two sessions at once).
C9_Witness ==
    \E s \in AllSessions :
        /\ Validated(s)
        /\ Len(api_key[s]) >= 30
        /\ Len(sent[s]) = 1
        /\ ~completed[s]
        /\ Count(messages[s], "validation_failed") = 1

\* C10 as claimed (validation is per key): each request is authenticated with
\* the key of the session that makes it, so a key is reported valid, and the
\* prompt builder unlocked, only if the provider accepts that key.
C10_ValidationPerKey ==
    \A s \in AllSessions :
        /\ \A i \in 1..Len(sent[s]) : sent[s][i] = api_key[s]
        /\ key_valid[s] => ProviderAccepts(api_key[s])
        /\ Count(messages[s], "builder") > 0 => ProviderAccepts(api_key[s])


=============================================================================
